---- MODULE Spec2Model ----
(***************************************************************************)
(* A model of package chunk (chunk.go): a Chunk is a bounded, seekable     *)
(* view over an io.ReadSeeker, which is either a raw byte stream (the      *)
(* tests use bytes.Reader) or another Chunk.                               *)
(*                                                                         *)
(* TLC's integers are 32-bit signed, so Go's uint32 cannot be held at its  *)
(* real width.  The model keeps the structure of the arithmetic (a size is *)
(* four big-endian bytes, every uint32 operation is reduced modulo the     *)
(* word size) with bytes of ByteBits bits instead of 8, i.e. a word of     *)
(* 4 * ByteBits bits.                                                      *)
(***************************************************************************)
EXTENDS Integers, Sequences, FiniteSets, TLC

\* ------------------------------------------------------------- bounds
ByteBits == 2
MaxChunks == 2
MaxBuf == 2
MaxOff == 1
MaxSteps == 5
MaxSibs == 2
MaxPay == 3

\* ------------------------------------------------------ machine words
ByteMod == 2 ^ ByteBits
Uint32Mod == ByteMod ^ 4
U32(x) == x % Uint32Mod

Min(a, b) == IF a < b THEN a ELSE b

\* The element of a one-element set.  Only({e(r) : r \in {x}}) is e(x) with
\* x evaluated once, which is how a call's result is named below.
Only(S) == CHOOSE x \in S : TRUE

\* ------------------------------------------------------- byte streams
\* The 4 size bytes of a header holding n, most significant first.
BE32(n) ==
    << (n \div (ByteMod ^ 3)) % ByteMod, (n \div (ByteMod ^ 2)) % ByteMod,
       (n \div ByteMod) % ByteMod, n % ByteMod >>

Hdr(tag, size) == tag \o BE32(size)

\* A well-formed chunk: header, payload, one pad byte after an odd payload.
IFF(tag, payload) ==
    Hdr(tag, Len(payload)) \o payload
        \o (IF Len(payload) % 2 = 1 THEN <<0>> ELSE <<>>)

\* The shape of the tests' testString: a 2-byte chunk, then a chunk whose
\* payload holds an odd-sized and an even-sized sub-chunk.
testString ==
    IFF(<<1, 0, 1, 0>>, <<2, 1>>)
        \o Hdr(<<1, 1, 0, 0>>, 20)
        \o IFF(<<0, 1, 0, 1>>, <<3>>)
        \o IFF(<<0, 1, 0, 2>>, <<1, 3>>)

\* An odd-sized chunk followed by a sibling.
oddThenSibling ==
    IFF(<<1, 0, 0, 0>>, <<3, 1, 2>>) \o IFF(<<2, 0, 0, 0>>, <<1, 2>>)

\* An odd-sized parent whose only child is odd-sized and ends exactly at the
\* parent's declared end; a sibling of the parent follows the parent's pad.
oddNested ==
    Hdr(<<1, 0, 0, 0>>, 9) \o Hdr(<<2, 0, 0, 0>>, 1) \o <<3>> \o <<0>>
        \o IFF(<<3, 0, 0, 0>>, <<>>)

\* A chunk that declares more payload than the stream holds.
oversized == Hdr(<<1, 0, 0, 0>>, 5) \o <<1, 2>>

\* An odd-sized parent whose child declares more payload than the parent has
\* left; two bytes follow the parent's pad.
overNested ==
    Hdr(<<1, 0, 0, 0>>, 9) \o Hdr(<<2, 0, 0, 0>>, 5) \o <<3>> \o <<0>>
        \o <<1, 2>>

\* A chunk that declares the largest size a header can hold, so that
\* base + size does not fit in a uint32.
wrapping == Hdr(<<1, 0, 0, 0>>, Uint32Mod - 1) \o <<1, 2>>

Files ==
    {testString, oddThenSibling, oddNested, oversized, overNested, wrapping}

\* -------------------------------------------------------------- state
VARIABLES
    s,       \* the raw stream's bytes (bytes.Reader.s), fixed after Init
    i,       \* the raw stream's position (bytes.Reader.i)
    chunks,  \* the Chunk objects made so far, in order of construction
    last,    \* the last call made by the caller, its arguments and results
    hist,    \* what the calls so far have been (history, read by no call)
    steps    \* the number of calls the caller has made

vars == <<s, i, chunks, last, hist, steps>>

\* A source is named 0 (the raw stream) or k (the Chunk chunks[k]).
\* A program state as the operators below pass it around.
State(pos, ch) == [i |-> pos, ch |-> ch]
Cur == State(i, chunks)

\* What f.Seek(0, 1) reports for source f: the source's own position.
SrcPos(st, f) == IF f = 0 THEN st.i ELSE st.ch[f].offset

\* ------------------------------------------------------ the raw stream
\* bytes.Reader.Read: copies what is left, up to n bytes; EOF at the end.
RawRead(st, n) ==
    IF st.i >= Len(s)
    THEN [st |-> st, n |-> 0, err |-> "EOF", buf |-> <<>>]
    ELSE LET k == Min(n, Len(s) - st.i)
         IN  [st |-> [st EXCEPT !.i = @ + k], n |-> k, err |-> "nil",
              buf |-> SubSeq(s, st.i + 1, st.i + k)]

\* bytes.Reader.Seek: any non-negative position is accepted.
RawSeek(st, offset, whence) ==
    LET abs == CASE whence = 0 -> offset
                 [] whence = 1 -> st.i + offset
                 [] whence = 2 -> Len(s) + offset
    IN  IF abs < 0
        THEN [st |-> st, ret |-> 0, err |-> "negative position"]
        ELSE [st |-> [st EXCEPT !.i = abs], ret |-> abs, err |-> "nil"]

\* ---------------------------------------------------------- the Chunk
RECURSIVE ChunkRead(_, _, _), ChunkSeek(_, _, _, _)

\* this.file.Read(buffer) with len(buffer) = n
SrcRead(st, f, n) == IF f = 0 THEN RawRead(st, n) ELSE ChunkRead(st, f, n)

\* this.file.Seek(offset, whence)
SrcSeek(st, f, offset, whence) ==
    IF f = 0 THEN RawSeek(st, offset, whence)
    ELSE ChunkSeek(st, f, offset, whence)

\* Seek's switch on whence: the chunk-relative target.
SeekTarget(this, offset, whence) ==
    CASE whence = 1 -> offset + this.offset
      [] whence = 2 -> offset + this.size
      [] OTHER -> offset

\* A range check that forgets the lower end.
InvalidTargetNoLow(this, off) == off > this.size

\* Seek's range check on the target.
InvalidTarget(this, off) == off < 0 \/ off > this.size

\* A Seek that steps over the pad byte when it lands on an odd size.
SeekPosPadded(this, off) ==
    this.base + off + (IF off = this.size /\ this.size % 2 = 1 THEN 1 ELSE 0)

\* The absolute position Seek asks of the source (int64 arithmetic).
SeekPos(this, off) == this.base + off

\* A failed Seek that reports the source's position as it got it.
FailedSeekRetAbsolute(this, r) == r.ret

\* The position a Seek reports when the source's Seek failed with result r:
\* int64(pos) - int64(this.base).
FailedSeekRet(this, r) == r.ret - this.base

\* func (this *Chunk) Seek(offset int64, whence int) (ret int64, err error)
ChunkSeek(st, c, offset, whence) ==
    LET this == st.ch[c]
        off == SeekTarget(this, offset, whence)
    IN  IF InvalidTarget(this, off)
        THEN [st |-> st, ret |-> this.offset, err |-> "Invalid seek offset"]
        ELSE Only({ IF r.err # "nil"
                    THEN [st |-> r.st, ret |-> FailedSeekRet(this, r),
                          err |-> r.err]
                    ELSE [st |-> [r.st EXCEPT !.ch[c].offset = U32(off)],
                          ret |-> off, err |-> "nil"]
                    : r \in {SrcSeek(st, this.file, SeekPos(this, off), 0)} })

\* A Skip that stops at the end of the payload, before any pad byte.
SkipPosUnpadded(this) == U32(this.base + this.size)

\* The position Skip asks of the source: base + size in uint32 arithmetic,
\* made even.
SkipPos(this) ==
    LET pos == U32(this.base + this.size)
    IN  IF pos % 2 = 1 THEN U32(pos + 1) ELSE pos

\* A Skip that moves the source and forgets the cursor.
SkipOffsetKept(this) == this.offset

\* The cursor Skip leaves.
SkipOffset(this) == this.size

\* func (this *Chunk) Skip(); the result of the source's Seek is dropped
ChunkSkip(st, c) ==
    LET this == st.ch[c]
    IN  Only({ SrcSeek(st1, this.file, SkipPos(this), 0).st
               : st1 \in {[st EXCEPT !.ch[c].offset = SkipOffset(this)]} })

\* Read's first test: nothing is left to read.
AtEnd(this) == this.offset = this.size

\* The length of the buffer Read hands to the source: len(buffer), cut to
\* size - offset (uint32 arithmetic) when uint32(len(buffer)) exceeds it.
ReadLen(this, len) ==
    LET left == U32(this.size - this.offset)
    IN  IF U32(len) > left THEN left ELSE len

\* A pad test with the parity the wrong way round.
PadDueEven(size, offset) == offset = size /\ size % 2 = 0

\* Read's test for the extra step past the pad byte, offset being the
\* cursor after the bytes read.
PadDue(size, offset) == offset = size /\ size % 2 = 1

\* The cursor after the source accepted the one-byte seek.
PadOffset(offset) == U32(offset + 1)

\* A pad step that counts the pad byte whether or not the seek succeeded.
PadAlways(k) == TRUE

\* The pad step's test of its own seek k: err == nil.
PadAccepted(k) == k.err = "nil"

\* func (this *Chunk) Read(buffer []byte) (n int, err error), len(buffer) = len
ChunkRead(st, c, len) ==
    LET this == st.ch[c]
    IN  IF AtEnd(this)
        THEN [st |-> st, n |-> 0, err |-> "EOF", buf |-> <<>>]
        ELSE Only({
            LET off1 == U32(this.offset + r.n)
                st1 == [r.st EXCEPT !.ch[c].offset = off1]
            IN  [n |-> r.n, err |-> r.err, buf |-> r.buf,
                 st |-> IF PadDue(this.size, off1)
                        THEN Only({ IF PadAccepted(k)
                                    THEN [k.st EXCEPT
                                             !.ch[c].offset = PadOffset(@)]
                                    ELSE k.st
                                    : k \in {SrcSeek(st1, this.file, 1, 1)} })
                        ELSE st1]
            : r \in {SrcRead(st, this.file, ReadLen(this, len))} })

\* The uint32 the 4 size bytes of a header spell, big-endian.
SizeOf(b) ==
    U32(b[1] * ByteMod ^ 3 + b[2] * ByteMod ^ 2 + b[3] * ByteMod + b[4])

\* The Chunk New returns: &Chunk{f, string(id), size, uint32(base), 0}
MakeChunk(f, id, sizeBits, base) ==
    [file |-> f, id |-> id, size |-> SizeOf(sizeBits), base |-> U32(base),
     offset |-> 0]

\* New's test after each 4-byte read: n != 4 || err != nil.
ShortRead(r) == r.n # 4 \/ r.err # "nil"

\* An error result that reports every failed header read as a generic error.
HeaderErrGeneric(r) == "short header"

\* The error New returns after a failed header read: the read's own err.
HeaderErr(r) == r.err

\* func New(f io.ReadSeeker) (*Chunk, error); chunk = <<>> stands for nil
New(st, f) ==
    Only({
        IF ShortRead(r1)
        THEN [st |-> r1.st, chunk |-> <<>>, err |-> HeaderErr(r1)]
        ELSE Only({
            IF ShortRead(r2)
            THEN [st |-> r2.st, chunk |-> <<>>, err |-> HeaderErr(r2)]
            ELSE Only({
                LET made == MakeChunk(f, r1.buf, r2.buf, k.ret)
                IN  [st |-> [k.st EXCEPT !.ch = Append(@, made)],
                     chunk |-> <<made>>, err |-> "nil"]
                : k \in {SrcSeek(r2.st, f, 0, 1)} })
            : r2 \in {SrcRead(r1.st, f, 4)} })
        : r1 \in {SrcRead(st, f, 4)} })

\* ------------------------------------------------------------ history
\* The chunks chunk c reads through: its source, its source's source, ...
RECURSIVE Ancestors(_, _)
Ancestors(ch, c) ==
    IF c = 0 \/ ch[c].file = 0 THEN {}
    ELSE {ch[c].file} \cup Ancestors(ch, ch[c].file)

\* hist.run = [c, got]: every call since New made chunk c was a call on c
\* (c = 0: there is no such chunk); got is the number of bytes those calls
\* returned when all of them were Reads, and -1 otherwise.
\* hist.mark[c] = "skip" / "end": Skip was called on c, or a Seek of c
\* succeeded at exactly its size, and no Seek has been called on c since
\* (a call on a chunk that reads through c counts as a Seek on c).
\* hist.start[c]: where c's source stood when New returned c, i.e. where
\* c's payload starts in its source.
\* hist.nest: the calls so far are New on the raw stream, which made chunk 1,
\* and then only New on chunk 1 and calls on the chunks made from chunk 1.
NoRun == [c |-> 0, got |-> 0]
NoHist == [run |-> NoRun, mark |-> <<>>, start |-> <<>>, nest |-> TRUE]

Unmark(mark, touched) ==
    [k \in DOMAIN mark |-> IF k \in touched THEN "none" ELSE mark[k]]

\* ------------------------------------------------------------ actions
Sources == 0 .. Len(chunks)
Made == 1 .. Len(chunks)
BufLens == 0 .. MaxBuf
Offsets == (-MaxOff) .. MaxOff
Whences == 0 .. 2

NoCall ==
    [op |-> "none", c |-> 0, f |-> 0, len |-> 0, off |-> 0, whence |-> 0,
     n |-> 0, ret |-> 0, err |-> "nil", buf |-> <<>>,
     pre |-> State(0, <<>>), prev |-> <<"none", 0>>]

\* hist.run after a call on chunk c.
RunOn(c, got) == IF hist.run.c = c THEN [c |-> c, got |-> got] ELSE NoRun

\* The record of a call: op on chunk c (0: none) whose source is f.
CallOf(op, c, f) ==
    [NoCall EXCEPT !.op = op, !.c = c, !.f = f, !.pre = Cur,
                   !.prev = <<last.op, last.c>>]

Init ==
    /\ s \in Files
    /\ i = 0
    /\ chunks = <<>>
    /\ last = NoCall
    /\ hist = NoHist
    /\ steps = 0

\* The caller makes a Chunk from source f.
NewCall(f) ==
    \E r \in {New(Cur, f)} :
    LET c == IF r.chunk = <<>> THEN 0 ELSE Len(chunks) + 1
    IN  /\ i' = r.st.i
        /\ chunks' = r.st.ch
        /\ last' = [CallOf("New", c, f) EXCEPT !.err = r.err]
        /\ hist' = [run |-> IF c = 0 THEN NoRun ELSE [c |-> c, got |-> 0],
                    mark |-> LET m == Unmark(hist.mark,
                                      Ancestors(chunks, f)
                                          \cup (IF c = 0 THEN {} ELSE {f}))
                             IN  IF c = 0 THEN m ELSE Append(m, "none"),
                    start |-> IF c = 0 THEN hist.start
                              ELSE Append(hist.start, SrcPos(r.st, f)),
                    nest |-> hist.nest
                                /\ (f = 1 \/ (f = 0 /\ chunks = <<>>))]
        /\ UNCHANGED s

\* The caller makes a Chunk from source f; at most MaxChunks are made.
DoNew(f) == Len(New(Cur, f).st.ch) <= MaxChunks /\ NewCall(f)

\* The caller reads from chunk c into a buffer of length len.
DoRead(c, len) ==
    \E r \in {ChunkRead(Cur, c, len)} :
        /\ i' = r.st.i
        /\ chunks' = r.st.ch
        /\ last' = [CallOf("Read", c, chunks[c].file) EXCEPT
                        !.len = len, !.n = r.n, !.err = r.err, !.buf = r.buf]
        /\ hist' = [run |-> RunOn(c, IF hist.run.got < 0 THEN -1
                                        ELSE hist.run.got + r.n),
                    mark |-> Unmark(hist.mark, Ancestors(chunks, c)),
                    start |-> hist.start,
                    nest |-> hist.nest /\ chunks[c].file = 1]
        /\ UNCHANGED s

\* The caller seeks in chunk c.
DoSeek(c, offset, whence) ==
    \E r \in {ChunkSeek(Cur, c, offset, whence)} :
        /\ i' = r.st.i
        /\ chunks' = r.st.ch
        /\ last' = [CallOf("Seek", c, chunks[c].file) EXCEPT
                        !.off = offset, !.whence = whence, !.ret = r.ret,
                        !.err = r.err]
        /\ hist' = [run |-> RunOn(c, -1),
                    mark |-> [Unmark(hist.mark, Ancestors(chunks, c))
                                 EXCEPT ![c] = IF r.err = "nil"
                                                  /\ r.ret = chunks[c].size
                                               THEN "end" ELSE "none"],
                    start |-> hist.start,
                    nest |-> hist.nest /\ chunks[c].file = 1]
        /\ UNCHANGED s

\* The caller skips chunk c.
DoSkip(c) ==
    \E st \in {ChunkSkip(Cur, c)} :
        /\ i' = st.i
        /\ chunks' = st.ch
        /\ last' = CallOf("Skip", c, chunks[c].file)
        /\ hist' = [run |-> RunOn(c, -1),
                    mark |-> [Unmark(hist.mark, Ancestors(chunks, c))
                                 EXCEPT ![c] = "skip"],
                    start |-> hist.start,
                    nest |-> hist.nest /\ chunks[c].file = 1]
        /\ UNCHANGED s

\* One call of the caller, which makes at most MaxSteps calls.
Call(A) == steps < MaxSteps /\ A /\ steps' = steps + 1

Next ==
    \/ \E f \in Sources : Call(DoNew(f))
    \/ \E c \in Made, len \in BufLens : Call(DoRead(c, len))
    \/ \E c \in Made, offset \in Offsets, whence \in Whences :
           Call(DoSeek(c, offset, whence))
    \/ \E c \in Made : Call(DoSkip(c))

Spec == Init /\ [][Next]_vars

\* ---------------------------------------------- enumerating siblings
\* Streams holding a well-formed sequence of sibling chunks, and the same
\* sequence as the payload of a parent chunk that a further chunk follows.
SibTag(j) == <<j % ByteMod, 0, 0, 1>>
Payload(n) == [k \in 1 .. n |-> k % ByteMod]

RECURSIVE Siblings(_, _)
Siblings(sizes, j) ==
    IF j > Len(sizes) THEN <<>>
    ELSE IFF(SibTag(j), Payload(sizes[j])) \o Siblings(sizes, j + 1)

SibSizes == UNION { [1 .. k -> 0 .. MaxPay] : k \in 0 .. MaxSibs }
Flat(z) == Siblings(z, 1)
Form(z) ==
    Hdr(<<1, 1, 1, 1>>, Len(Flat(z))) \o Flat(z) \o IFF(<<3, 3, 3, 3>>, <<>>)
\* Each sequence of sizes with its two streams.
EnumInputs ==
    { [sizes |-> z, flat |-> Flat(z), form |-> Form(z)] : z \in SibSizes }
EnumFiles == { e.flat : e \in EnumInputs } \cup { e.form : e \in EnumInputs }

InitEnum ==
    /\ s \in EnumFiles
    /\ i = 0
    /\ chunks = <<>>
    /\ last = NoCall
    /\ hist = NoHist
    /\ steps = 0

\* The loop: New, then drain the chunk by Reads or Skip it, then New again on
\* the same source, until New fails. The source is the raw stream or, once
\* the caller has made a chunk from chunk 1, chunk 1.
EnumSrc == IF \E c \in Made : chunks[c].file = 1 THEN 1 ELSE 0
Ended == last.op = "New" /\ last.c = 0
Drained ==
    /\ Len(chunks) >= 1
    /\ hist.run = [c |-> Len(chunks), got |-> chunks[Len(chunks)].size]
Skipped == last.op = "Skip"

EnumNew(f) ==
    /\ ~Ended
    /\ \/ f = 0 /\ EnumSrc = 0 /\ (chunks = <<>> \/ Drained \/ Skipped)
       \/ f = 1 /\ Len(chunks) = 1 /\ last.op = "New"
       \/ f = 1 /\ EnumSrc = 1 /\ (Drained \/ Skipped)
    /\ NewCall(f)
    /\ UNCHANGED steps

EnumRead(len) ==
    /\ ~Ended /\ Len(chunks) >= 1
    /\ hist.run.c = Len(chunks)
    /\ hist.run.got >= 0 /\ hist.run.got < chunks[Len(chunks)].size
    /\ DoRead(Len(chunks), len)
    /\ UNCHANGED steps

EnumSkip ==
    /\ ~Ended /\ Len(chunks) >= 1
    /\ hist.run.c = Len(chunks) /\ ~Skipped
    /\ DoSkip(Len(chunks))
    /\ UNCHANGED steps

NextEnum ==
    \/ \E f \in 0 .. 1 : EnumNew(f)
    \/ \E len \in 1 .. MaxBuf : EnumRead(len)
    \/ EnumSkip

\* The loop runs until New fails: it does not stop while a step is possible.
SpecEnum == InitEnum /\ [][NextEnum]_vars /\ WF_vars(NextEnum)

\* ------------------------------------------------------------- claims
\* The chunk of the last call, before and after it, and the position of
\* that chunk's source before and after it.
Pre == last.pre.ch[last.c]
Post == chunks[last.c]
PosPre == SrcPos(last.pre, last.f)
PosPost == SrcPos(Cur, last.f)
\* The last call was op on a chunk, and every call since that chunk was
\* made has been a call on it.
Alone(op) == last.op = op /\ last.c # 0 /\ hist.run.c = last.c

\* C1: after construction and after any Read, Seek and Skip calls the
\* cursor of every chunk satisfies 0 <= cursor <= declaredSize.
C1_CursorWithinSize ==
    \A c \in Made : 0 <= chunks[c].offset /\ chunks[c].offset <= chunks[c].size

\* C2: every byte a Read hands out comes from a source position in
\* [base, base + declaredSize), whatever Read, Seek and Skip calls were made
\* on the chunk before.
C2_ReadWithinPayload ==
    (Alone("Read") /\ last.n > 0)
        => /\ Pre.base <= PosPre
           /\ PosPre + last.n <= Pre.base + Pre.size

\* C3: once Reads totalling exactly declaredSize bytes have drained a chunk,
\* every later Read with a non-empty buffer returns 0 and EOF and leaves the
\* source where it was.
C3_DrainedReadsEOF ==
    (Alone("Read") /\ hist.run.got >= 0
        /\ hist.run.got - last.n >= Pre.size /\ last.len > 0)
        => last.n = 0 /\ last.err = "EOF" /\ PosPost = PosPre

\* C4: a Read at a cursor below declaredSize reads at source position
\* base + cursor, returns at most min(len, declaredSize - cursor) bytes and
\* advances the cursor by exactly the count it returns.
C4_ReadAdvancesByCount ==
    (Alone("Read") /\ Pre.offset < Pre.size)
        => /\ PosPre = Pre.base + Pre.offset
           /\ last.n <= Min(last.len, Pre.size - Pre.offset)
           /\ Post.offset = Pre.offset + last.n
           /\ last.f = 0 => last.buf = SubSeq(s, PosPre + 1, PosPre + last.n)

C6_SkipPadsByParityOfSize ==
    (last.op = "Skip" /\ last.f = 0 /\ Pre.base + Pre.size + 1 < Uint32Mod)
        => /\ Post.offset = Post.size
           /\ PosPost = Post.base + Post.size + (Post.size % 2)

\* C7: after Skip, as long as no Seek is called on the chunk, every Read of
\* it returns 0 and EOF and changes nothing, and a second Skip right after
\* the first leaves every cursor and the source position as they were.
C7_SkipIsFinal ==
    /\ (last.op = "Read" /\ hist.mark[last.c] = "skip")
           => last.n = 0 /\ last.err = "EOF" /\ Cur = last.pre
    /\ (last.op = "Skip" /\ last.prev = <<"Skip", last.c>>)
           => Cur = last.pre

\* A Read right after the Skip of a chunk none of whose payload was read,
\* with bytes left in the raw stream.
C7_Witness ==
    /\ last.op = "Read" /\ hist.mark[last.c] = "skip" /\ last.len > 0
    /\ last.prev = <<"Skip", last.c>>
    /\ Post.size > 0 /\ hist.run.c = last.c /\ i < Len(s)

\* The target the last Seek computed.
LastTarget == SeekTarget(Pre, last.off, last.whence)

\* C8: a Seek whose target is negative or greater than declaredSize returns
\* the invalid-offset error and the current cursor, and leaves the cursor and
\* the source position unchanged.
C8_InvalidSeekChangesNothing ==
    (last.op = "Seek" /\ (LastTarget < 0 \/ LastTarget > Pre.size))
        => /\ last.err = "Invalid seek offset"
           /\ last.ret = Pre.offset
           /\ Cur = last.pre

\* A from-end Seek past the end of a chunk whose cursor is not at 0.
C8_Witness ==
    /\ last.op = "Seek" /\ last.whence = 2 /\ LastTarget > Pre.size
    /\ Pre.offset > 0 /\ last.err = "Invalid seek offset"

\* C9: in every reachable state of a chunk read from a raw stream the cursor
\* lies in [0, declaredSize], and a Seek whose target (offset, cursor +
\* offset or declaredSize + offset) lies in [0, declaredSize] puts the source
\* at base + target, sets cursor = target and returns target.
C9_SeekFromCursorWithinSize ==
    (last.op = "Seek" /\ last.f = 0)
        => /\ Pre.offset <= Pre.size
           /\ (0 <= LastTarget /\ LastTarget <= Pre.size)
                  => /\ last.err = "nil"
                     /\ last.ret = LastTarget
                     /\ Post.offset = LastTarget
                     /\ PosPost = Pre.base + LastTarget

\* C10: a successful Seek to exactly declaredSize leaves the source at
\* base + declaredSize, pad byte unread, and a Read after it returns 0 and
\* EOF and changes nothing.
C10_SeekToEndLeavesPad ==
    /\ (last.op = "Seek" /\ last.err = "nil" /\ last.ret = Pre.size)
           => PosPost = Pre.base + Pre.size /\ Post.offset = Pre.size
    /\ (last.op = "Read" /\ hist.mark[last.c] = "end")
           => last.n = 0 /\ last.err = "EOF" /\ Cur = last.pre

\* A Read right after a Seek to the end of an odd-sized chunk.
C10_Witness ==
    /\ last.op = "Read" /\ hist.mark[last.c] = "end" /\ last.len > 0
    /\ last.prev = <<"Seek", last.c>>
    /\ Post.size % 2 = 1 /\ PosPost = Post.base + Post.size

\* C11: New on a raw stream with no bytes left returns no chunk and exactly
\* the end-of-stream error.
C11_NewAtEndIsEOF ==
    (last.op = "New" /\ last.f = 0 /\ last.pre.i >= Len(s))
        => last.c = 0 /\ last.err = "EOF" /\ chunks = last.pre.ch

\* New on a stream that the chunks made from it have consumed to its end.
C11_Witness ==
    /\ last.op = "New" /\ last.f = 0 /\ last.pre.i = Len(s)
    /\ Len(chunks) > 0 /\ last.err = "EOF"

\* C12: New on a raw stream that holds at least one but fewer than 8 more
\* bytes returns no chunk and a non-nil error.
C12_PartialHeaderFails ==
    (last.op = "New" /\ last.f = 0
        /\ 0 < Len(s) - last.pre.i /\ Len(s) - last.pre.i < 8)
        => last.c = 0 /\ last.err # "nil"

\* C13: New on a source at position p that holds 8 more bytes returns a chunk
\* whose tag is the bytes p..p+3, whose size is the big-endian value of the
\* bytes p+4..p+7, whose base is p+8 and whose cursor is 0, and it leaves the
\* source at p+8.
C13_NewReadsHeader ==
    last.op = "New" =>
        /\ (last.f = 0 /\ Len(s) - PosPre >= 8) =>
            /\ last.c # 0
            /\ Post.id = SubSeq(s, PosPre + 1, PosPre + 4)
            /\ Post.size = SizeOf(SubSeq(s, PosPre + 5, PosPre + 8))
        /\ last.c # 0 =>
            /\ Post.base = PosPre + 8
            /\ Post.offset = 0
            /\ PosPost = PosPre + 8

\* C14: while the caller only makes chunks from a parent chunk and calls
\* Read, Seek and Skip on those children, the underlying stream stays
\* between the parent's base and the end of the parent's payload plus its
\* one pad byte.
C14_ChildStaysInParent ==
    (hist.nest /\ Len(chunks) >= 1) =>
        /\ chunks[1].base <= i
        /\ i <= chunks[1].base + chunks[1].size + 1

\* The chunks made from source f are the first of the siblings of sizes z,
\* in order, and a failed New on f has come after all of them and reports
\* the end of the stream; chunk c of them is sibling c - before.
Listed(z, f, before) ==
    /\ \A c \in Made : chunks[c].file = f =>
        /\ c - before \in 1 .. Len(z)
        /\ chunks[c].id = SibTag(c - before)
        /\ chunks[c].size = z[c - before]
        /\ chunks[c].base = hist.start[c]
    /\ (Ended /\ last.f = f) =>
        /\ Len(chunks) - before = Len(z)
        /\ last.err = "EOF"

ListedAll ==
    \A e \in EnumInputs :
        /\ s = e.flat => Listed(e.sizes, 0, 0)
        /\ (s = e.form /\ Len(chunks) >= 1) => Listed(e.sizes, 1, 1)

\* C15: on a source holding k well-formed sibling chunks (a raw stream or a
\* parent chunk's payload), the loop "New, then drain by Reads or Skip, then
\* New again" returns the k chunks in order with their tags and sizes, and
\* it ends: the New after them reports the end of the stream.
C15_EnumeratesSiblings == []ListedAll /\ <>Ended

\* The end of the enumeration of two children of a parent chunk: an
\* odd-sized one, and a last one that was drained by Reads.
C15_Witness ==
    /\ s = Form(<<3, 1>>) /\ Len(chunks) = 3
    /\ Ended /\ last.f = 1 /\ last.prev = <<"Read", 3>>

\* C16: when New, a Read or a successful Seek returns, and every call since
\* the chunk was made was a call on it (Reads only, before a Read), the
\* chunk's source stands at base + cursor; for a nested chunk the source's
\* position is the parent's cursor.
C16_SourceAtBasePlusCursor ==
    (\/ last.op = "New" /\ last.c # 0
     \/ Alone("Read") /\ hist.run.got >= 0
     \/ Alone("Seek") /\ last.err = "nil")
        => PosPost = Post.base + Post.offset

\* The source's read inside the last Read, and the one-byte seek that the pad
\* step makes after it.
ReadOfLast == SrcRead(last.pre, last.f, ReadLen(Pre, last.len))
PadSeekOfLast ==
    SrcSeek([ReadOfLast.st EXCEPT
                !.ch[last.c].offset = Pre.offset + ReadOfLast.n],
            last.f, 1, 1)
PadSeekFailed ==
    /\ last.op = "Read"
    /\ Pre.offset < Pre.size /\ Pre.size % 2 = 1
    /\ Pre.offset + ReadOfLast.n = Pre.size
    /\ PadSeekOfLast.err # "nil"

\* C17: when a Read drains an odd-sized chunk and the source refuses the
\* one-byte seek past the pad, the Read returns the source's bytes and the
\* source read's own error, the cursor equals the declared size, and a
\* further Read returns 0 bytes and the end of the stream, moving nothing.
C17_FailedPadSeekIsSwallowed ==
    PadSeekFailed =>
        /\ last.n = ReadOfLast.n /\ last.buf = ReadOfLast.buf
        /\ last.err = ReadOfLast.err
        /\ Post.offset = Post.size
        /\ \A len \in BufLens :
               ChunkRead(Cur, last.c, len)
                   = [st |-> Cur, n |-> 0, err |-> "EOF", buf |-> <<>>]

\* A nested chunk whose last byte is the last byte of its parent.
C17_Witness ==
    /\ PadSeekFailed /\ last.f # 0 /\ last.n >= 1
    /\ last.pre.ch[last.f].offset + last.n = chunks[last.f].size

\* The source's Seek inside the last Seek, whose target was in range, failed.
SeekOfLast == SrcSeek(last.pre, last.f, SeekPos(Pre, LastTarget), 0)
SourceSeekFailed ==
    /\ last.op = "Seek" /\ ~InvalidTarget(Pre, LastTarget)
    /\ SeekOfLast.err # "nil"

\* C18: a Seek whose target is within the declared size and whose source
\* refuses the seek returns the source's error, leaves the cursor unchanged
\* and reports that cursor, when every call since the chunk was made was a
\* call on it and no cursor is beyond its declared size.
C18_FailedSeekReportsCursor ==
    (/\ SourceSeekFailed /\ hist.run.c = last.c
     /\ \A c \in Made : chunks[c].offset <= chunks[c].size) =>
        /\ last.err = SeekOfLast.err
        /\ Post.offset = Pre.offset
        /\ last.ret = Pre.offset

\* C18, amended: such a Seek returns the source's error, leaves the cursor
\* unchanged and reports the position the source returned less base; that is
\* the cursor when the source is a chunk that stood at base + cursor and
\* refused the target itself.
C18_FailedSeekReportsSource ==
    SourceSeekFailed =>
        /\ last.err = SeekOfLast.err
        /\ Post.offset = Pre.offset
        /\ last.ret = SeekOfLast.ret - Pre.base
        /\ (/\ last.f # 0
            /\ InvalidTarget(last.pre.ch[last.f], SeekPos(Pre, LastTarget))
            /\ PosPre = Pre.base + Pre.offset)
               => last.ret = Pre.offset

\* A parent refuses the seek of a child that stands where its cursor says.
C18_Witness ==
    /\ SourceSeekFailed /\ last.f # 0
    /\ PosPre = Pre.base + Pre.offset /\ Pre.offset > 0

\* The state Skip would have left, had it been called in place of the last
\* call.
SkipInstead == ChunkSkip(last.pre, last.c)

\* C19: a Read that returns all that was left of a chunk's payload, the
\* source standing at base + cursor before it, leaves the source and the
\* cursor where Skip would have left them.
C19_DrainEqualsSkip ==
    (/\ last.op = "Read"
     /\ Pre.offset < Pre.size /\ Pre.offset + last.n = Pre.size
     /\ PosPre = Pre.base + Pre.offset) =>
        /\ PosPost = SrcPos(SkipInstead, last.f)
        /\ Post.offset = SkipInstead.ch[last.c].offset

\* The state Seek(0, 2) would have left, had it been called in place of the
\* last call: the source at base + size, computed without wraparound.
SeekEndInstead == ChunkSeek(last.pre, last.c, 0, 2).st

\* C20: on a raw stream the base New records is the position after the
\* header, and Skip leaves the stream where Seek(0, from the end) would put
\* it, or one pad byte further.
C20_NoWraparound ==
    /\ (last.op = "New" /\ last.f = 0 /\ last.c # 0) => Post.base = i
    /\ (last.op = "Skip" /\ last.f = 0) =>
           i \in {SeekEndInstead.i, SeekEndInstead.i + 1}

====
